---- MODULE Spec2Model ----
(***************************************************************************)
(* Two-factor authentication lifecycle of the authentication app:          *)
(* Enable2FAView / Verify2FAView / Disable2FAView /                        *)
(* RegenerateBackupCodesView (views.py) over TwoFactorService              *)
(* (services.py) and the TwoFactorBackupCode / User rows (models.py).      *)
(*                                                                         *)
(* Every request runs on its own worker.  No handler opens a transaction   *)
(* (no transaction.atomic, no select_for_update anywhere in the source),   *)
(* so every ORM call is its own committed statement and one action of the  *)
(* model is one ORM call together with the Python code that follows it up  *)
(* to the next ORM call.                                                   *)
(***************************************************************************)
EXTENDS Integers, Sequences, FiniteSets, TLC

\* ---------------------------------------------------------------- bounds
\* Requests started in one behaviour.
MaxReq == 4
\* Size of a backup-code batch (the source's default count is 10).
Count == 2

Users == {"u1", "u2"}
Procs == {"w1", "w2"}
\* Values of TOTPDevice.key (random per device in django_otp).
Keys == {"k1", "k2"}

\* ------------------------------------------------------- codes and tokens
\* str.upper() on the characters the model uses.
UpperChar(c) ==
    CASE c = "a" -> "A"
      [] c = "b" -> "B"
      [] c = "c" -> "C"
      [] c = "d" -> "D"
      [] OTHER   -> c

\* Mutant: the submitted code is looked up as it was typed.
Upper_asis(s) == s

Upper(s) == [i \in DOMAIN s |-> UpperChar(s[i])]

\* Values secrets.token_hex(5).upper() can return: upper-case hex strings.
CodePool == {<<"A", "1">>, <<"B", "2">>, <<"C", "3">>, <<"D", "4">>}

\* The code the authenticator shows now for a device key: digits only, and
\* shorter than a backup code (6 digits against 10 hex characters).
TotpCode(k) == IF k = "k1" THEN <<"1">> ELSE <<"2">>

\* What a client submits as token: two of the backup codes, one of them in
\* lower case too, and the TOTP codes.
Tokens == {<<"A", "1">>, <<"a", "1">>, <<"B", "2">>} \cup {TotpCode(k) : k \in Keys}

\* ------------------------------------------------------------------ state
VARIABLES
    users,      \* User rows: user id -> [is_2fa_enabled, password]
    devices,    \* TOTPDevice rows: [id, user, confirmed, key]
    codes,      \* TwoFactorBackupCode rows: [id, user, code, is_used, used_at]
    pc,         \* worker -> position in its handler
    req,        \* worker -> the Python locals of the request it runs
    out,        \* the response the last step returned, NoResp if none
    nreq,       \* requests started so far
    lastEnroll, \* user -> what the last enroll returned, while no verify or
                \* disable of that user has started since (history)
    sinceDisable, \* the users whose 2FA an accepted disable switched off, while
                \* no enroll of that user was accepted since (history)
    lastBatch,  \* user -> the codes generate_backup_codes returned last for
                \* the user, while no disable has deleted them (history)
    tokens,     \* Token rows of rest_framework.authtoken: [key, user]
    nkeys,      \* keys Token.generate_key has produced so far
    lastLogin   \* user -> what the user's last login returned, while no
                \* verify of the user has returned valid since (history)

vars == <<users, devices, codes, pc, req, out, nreq, lastEnroll, sinceDisable, lastBatch,
          tokens, nkeys, lastLogin>>
db == <<users, devices, codes>>
account == <<tokens, nkeys, lastLogin>>

NoDevice == [id |-> <<"", 0>>, user |-> "", confirmed |-> FALSE, key |-> ""]
NoBackupCode == [id |-> <<<<>>, 0>>, user |-> "", code |-> <<>>, is_used |-> FALSE, used_at |-> "null"]
NoUserRow == [is_2fa_enabled |-> FALSE, password |-> ""]
NoEnroll == [secret |-> "", codes |-> {}]
NoLogin == [status |-> "none", token |-> 0]

\* The 2FA state of a user as the stored rows show it.
StateOf(u) ==
    IF users[u].is_2fa_enabled THEN "ENABLED"
    ELSE IF \E d \in devices : d.user = u THEN "PENDING"
    ELSE "DISABLED"

IdleReq ==
    [op |-> "", user |-> "", row |-> NoUserRow, token |-> <<>>,
     device |-> NoDevice, backup_code |-> NoBackupCode, made |-> {},
     at_start |-> "", count |-> 0, auth |-> 0, new_password |-> ""]

\* The key of the Token row of user u, 0 when the user has none (the user
\* column of Token is unique).
TokenKey(u) ==
    IF \E t \in tokens : t.user = u
    THEN (CHOOSE t \in tokens : t.user = u).key
    ELSE 0

\* request.user is loaded from the user table when the request is
\* authenticated; the handler works on that copy.  auth is the key of the
\* user's API token, which the client sends with the request.
NewReq(o, u, t) ==
    [op |-> o, user |-> u, row |-> users[u], token |-> t,
     device |-> NoDevice, backup_code |-> NoBackupCode, made |-> {},
     at_start |-> StateOf(u), count |-> Count, auth |-> TokenKey(u),
     new_password |-> ""]

\* A response, with the request it answers: op, user, token, the 2FA state
\* of the user when the request began (at_start) and lastEnroll of the user
\* when it returned (prev).  is_valid is what verify_2fa_token returned,
\* via the key of the backup-code row it consumed.
NoResp ==
    [op |-> "", user |-> "", token |-> <<>>, at_start |-> "", prev |-> NoEnroll,
     status |-> "none", is_valid |-> FALSE, notified |-> FALSE,
     via |-> <<<<>>, 0>>, secret |-> "", codes |-> {}, replaced |-> {},
     auth |-> 0, session |-> FALSE, key |-> 0,
     after |-> [op |-> "", user |-> "", status |-> "none"]]

\* The response with status s to the request with locals l.
Response(l, s) ==
    [NoResp EXCEPT !.op = l.op, !.user = l.user, !.token = l.token,
                   !.at_start = l.at_start, !.prev = lastEnroll[l.user],
                   !.auth = l.auth,
                   !.status = s]

\* The response with status s of a view that refuses the request with locals
\* l before it calls the service; after is the response the step before
\* returned, so that a request repeated at once can be told.
Refusal(l, s) ==
    [Response(l, s) EXCEPT
        !.after = [op |-> out.op, user |-> out.user, status |-> out.status]]

\* The key Token.generate_key gave the token of user u at registration.
FirstKey(u) == IF u = "u1" THEN 1 ELSE 2

\* The Token rows of the accounts U that registered through
\* UserRegistrationView.create, which ends with Token.objects.get_or_create.
RegisteredTokens(U) == {[key |-> FirstKey(u), user |-> u] : u \in U}

\* The accounts exist with 2FA off; the accounts U registered through the
\* API, the others were made with create_user and have no token yet.
InitWith(U) ==
    /\ users = [u \in Users |-> [is_2fa_enabled |-> FALSE, password |-> "p0"]]
    /\ devices = {}
    /\ codes = {}
    /\ pc = [p \in Procs |-> "idle"]
    /\ req = [p \in Procs |-> IdleReq]
    /\ out = NoResp
    /\ nreq = 0
    /\ lastEnroll = [u \in Users |-> NoEnroll]
    /\ sinceDisable = {}
    /\ lastBatch = [u \in Users |-> {}]
    /\ tokens = RegisteredTokens(U)
    /\ nkeys = Cardinality(Users)
    /\ lastLogin = [u \in Users |-> NoLogin]

\* Every account registered through the API.
Init == InitWith(Users)

\* The handler returns r (or an exception escapes it as a 500 response).
Return(p, r) ==
    /\ pc' = [pc EXCEPT ![p] = "idle"]
    /\ req' = [req EXCEPT ![p] = IdleReq]
    /\ out' = r

\* The handler goes on to its next ORM call with locals l.
Goto(p, where, l) ==
    /\ pc' = [pc EXCEPT ![p] = where]
    /\ req' = [req EXCEPT ![p] = l]
    /\ out' = NoResp

\* A request of worker p is accepted for processing.
Begin(p, l, where) ==
    /\ pc' = [pc EXCEPT ![p] = where]
    /\ req' = [req EXCEPT ![p] = l]
    /\ out' = NoResp

\* Model.save() of a row loaded earlier: UPDATE by primary key, and INSERT
\* with that primary key when the UPDATE matched no row.
Saved(table, row) == {r \in table : r.id # row.id} \cup {row}

\* The auto-increment primary key of a new row.  Keys are only compared for
\* equality, so a key is modelled as <<owner, n>> for a device of user
\* owner and <<code, n>> for a backup-code row of that code, with n the least
\* number that no stored row and no loaded copy holds in a key with the same
\* first part.  Every new row gets a key that no other row has or had.
NewId(first, held) ==
    LET taken == {k[2] : k \in {h \in held : h[1] = first}}
    IN  <<first, CHOOSE i \in 1..(Cardinality(taken) + 1) :
                    i \notin taken /\ \A j \in 1..(i - 1) : j \in taken>>

NewDeviceId(u) ==
    NewId(u, {d.id : d \in devices} \cup {req[p].device.id : p \in Procs})

NewCodeId(c) ==
    NewId(c, {r.id : r \in codes} \cup {req[p].backup_code.id : p \in Procs})

\* ------------------------------------------------------------ enroll
\* Mutant: the view without its guard.
EnrollRefused_never(row) == FALSE

\* Enable2FAView.post: if user.is_2fa_enabled, on the loaded user.
EnrollRefused(row) == row.is_2fa_enabled

\* Enable2FAView.post up to the call of enable_2fa.
Enable2FAView_post(p, u) ==
    /\ pc[p] = "idle"
    /\ nreq < MaxReq
    /\ nreq' = nreq + 1
    /\ IF EnrollRefused(users[u])
       THEN Return(p, Refusal(NewReq("enroll", u, <<>>), "already_enabled"))
       ELSE Begin(p, NewReq("enroll", u, <<>>), "get_or_create")
    /\ sinceDisable' = IF EnrollRefused(users[u]) THEN sinceDisable
                                                  ELSE sinceDisable \ {u}
    /\ UNCHANGED <<db, lastEnroll, lastBatch, account>>

\* Mutant: a plain create in place of get_or_create.
UnconfirmedDevices_none(u) == {}

\* The rows get_or_create(user=user, name='default', confirmed=False) looks up.
UnconfirmedDevices(u) == {d \in devices : d.user = u /\ ~d.confirmed}

\* enable_2fa: the lookup of get_or_create.
get_or_create_get(p) ==
    /\ pc[p] = "get_or_create"
    /\ LET found == UnconfirmedDevices(req[p].user) IN
       IF found = {}
       THEN Goto(p, "create_device", req[p])
       ELSE IF Cardinality(found) = 1
       THEN Goto(p, "delete_codes",
                 [req[p] EXCEPT !.device = CHOOSE d \in found : TRUE])
       ELSE \* MultipleObjectsReturned escapes the view
            Return(p, Response(req[p], "server_error"))
    /\ UNCHANGED <<db, nreq, lastEnroll, sinceDisable, lastBatch, account>>

\* enable_2fa: the create of get_or_create, after the lookup found nothing.
get_or_create_create(p) ==
    /\ pc[p] = "create_device"
    /\ \E k \in Keys :
         LET d == [id |-> NewDeviceId(req[p].user), user |-> req[p].user, confirmed |-> FALSE, key |-> k] IN
         /\ devices' = devices \cup {d}
         /\ Goto(p, "delete_codes", [req[p] EXCEPT !.device = d])
    /\ UNCHANGED <<users, codes, nreq, lastEnroll, sinceDisable, lastBatch, account>>

\* ------------------------------------------------- generate_backup_codes
\* Mutant: every response with a batch carries the key of the user's device.
BatchResponse_keyed(l, batch) ==
    [Response(l, "ok") EXCEPT
        !.codes = batch,
        !.replaced = lastBatch[l.user],
        !.secret = IF \E d \in devices : d.user = l.user
                   THEN (CHOOSE d \in devices : d.user = l.user).key
                   ELSE ""]

\* What the caller of generate_backup_codes returns with the finished batch;
\* replaced are the codes of the batch before it.
BatchResponse(l, batch) ==
    [Response(l, "ok") EXCEPT
        !.codes = batch,
        !.replaced = lastBatch[l.user],
        !.secret = IF l.op = "enroll" THEN l.device.key ELSE ""]

\* lastEnroll after worker p returned r.
EnrollNoted(l, r) ==
    IF l.op = "enroll"
    THEN [lastEnroll EXCEPT ![l.user] = [secret |-> r.secret, codes |-> r.codes]]
    ELSE lastEnroll

\* Mutant: only the unused codes are deleted.
generate_delete_unused(p) ==
    /\ pc[p] = "delete_codes"
    /\ codes' = {r \in codes : r.user # req[p].user \/ r.is_used}
    /\ IF req[p].count <= 0
       THEN \* range(count) is empty
            /\ Return(p, BatchResponse(req[p], {}))
            /\ lastEnroll' = EnrollNoted(req[p], BatchResponse(req[p], {}))
            /\ lastBatch' = [lastBatch EXCEPT ![req[p].user] = {}]
       ELSE /\ Goto(p, "create_code", req[p])
            /\ UNCHANGED <<lastEnroll, lastBatch>>
    /\ UNCHANGED <<users, devices, nreq, sinceDisable, account>>

\* generate_backup_codes: TwoFactorBackupCode.objects.filter(user=user).delete()
generate_delete(p) ==
    /\ pc[p] = "delete_codes"
    /\ codes' = {r \in codes : r.user # req[p].user}
    /\ IF req[p].count <= 0
       THEN \* range(count) is empty
            /\ Return(p, BatchResponse(req[p], {}))
            /\ lastEnroll' = EnrollNoted(req[p], BatchResponse(req[p], {}))
            /\ lastBatch' = [lastBatch EXCEPT ![req[p].user] = {}]
       ELSE /\ Goto(p, "create_code", req[p])
            /\ UNCHANGED <<lastEnroll, lastBatch>>
    /\ UNCHANGED <<users, devices, nreq, sinceDisable, account>>

\* generate_backup_codes: one round of the loop, a create of a random code.
\* The code column is unique over the whole table: a code that is stored
\* already raises IntegrityError, which escapes the view.
generate_create(p) ==
    /\ pc[p] = "create_code"
    /\ \E c \in CodePool :
         IF \E r \in codes : r.code = c
         THEN /\ Return(p, Response(req[p], "server_error"))
              /\ UNCHANGED <<codes, lastEnroll, lastBatch>>
         ELSE /\ codes' = codes \cup
                    {[id |-> NewCodeId(c), user |-> req[p].user, code |-> c,
                      is_used |-> FALSE, used_at |-> "null"]}
              /\ LET batch == req[p].made \cup {c} IN
                 IF Cardinality(batch) = req[p].count
                 THEN /\ Return(p, BatchResponse(req[p], batch))
                      /\ lastEnroll' = EnrollNoted(req[p], BatchResponse(req[p], batch))
                      /\ lastBatch' = [lastBatch EXCEPT ![req[p].user] = batch]
                 ELSE /\ Goto(p, "create_code", [req[p] EXCEPT !.made = batch])
                      /\ UNCHANGED <<lastEnroll, lastBatch>>
    /\ UNCHANGED <<users, devices, nreq, sinceDisable, account>>

\* Mutant: the view without its guard.
RegenerateRefused_never(row) == FALSE

\* RegenerateBackupCodesView.post: if not user.is_2fa_enabled.
RegenerateRefused(row) == ~row.is_2fa_enabled

\* The counts a caller of the service passes: negative, zero, and up to the
\* view's default.
Counts == (0 - 1)..Count

\* generate_backup_codes(user, count) called on the service itself, with
\* count = n, up to its first ORM call.
generate_backup_codes(p, u, n) ==
    /\ pc[p] = "idle"
    /\ nreq < MaxReq
    /\ nreq' = nreq + 1
    /\ Begin(p, [NewReq("generate", u, <<>>) EXCEPT !.count = n], "delete_codes")
    /\ UNCHANGED <<db, lastEnroll, sinceDisable, lastBatch, account>>

\* RegenerateBackupCodesView.post up to the call of generate_backup_codes.
RegenerateBackupCodesView_post(p, u) ==
    /\ pc[p] = "idle"
    /\ nreq < MaxReq
    /\ nreq' = nreq + 1
    /\ IF RegenerateRefused(users[u])
       THEN Return(p, Refusal(NewReq("regenerate", u, <<>>), "not_enabled"))
       ELSE Begin(p, NewReq("regenerate", u, <<>>), "delete_codes")
    /\ UNCHANGED <<db, lastEnroll, sinceDisable, lastBatch, account>>

\* ------------------------------------------------------------ verify
\* Verify2FAView.post up to the call of verify_2fa_token.
Verify2FAView_post(p, u, t) ==
    /\ pc[p] = "idle"
    /\ nreq < MaxReq
    /\ nreq' = nreq + 1
    /\ Begin(p, NewReq("verify", u, t), "get_device")
    /\ lastEnroll' = [lastEnroll EXCEPT ![u] = NoEnroll]
    /\ lastLogin' = [lastLogin EXCEPT ![u] = NoLogin]
    /\ UNCHANGED <<db, sinceDisable, lastBatch, tokens, nkeys>>

\* device.verify_token(token) of django_otp: the token is the code the
\* device's key yields now.
verify_token(d, t) == t = TotpCode(d.key)

\* Mutant: the 400 response tells a code that was used already from any
\* other invalid token.
Verified_telling(p, l, ok, row) ==
    IF ok
    THEN \E mailed \in BOOLEAN :
            Return(p, [Response(l, IF mailed THEN "ok" ELSE "server_error") EXCEPT
                          !.is_valid = TRUE, !.notified = mailed, !.via = row])
    ELSE IF \E r \in codes : r.user = l.user /\ r.code = Upper(l.token) /\ r.is_used
    THEN Return(p, Response(l, "code_already_used"))
    ELSE Return(p, Response(l, "invalid_token"))

\* Verify2FAView.post after verify_2fa_token returned: the 2FA-enabled mail
\* is sent on True (send_mail with fail_silently=False can raise, which
\* escapes the view), the 400 response is returned on False.
Verified(p, l, ok, row) ==
    IF ok
    THEN \E mailed \in BOOLEAN :
            Return(p, [Response(l, IF mailed THEN "ok" ELSE "server_error") EXCEPT
                          !.is_valid = TRUE, !.notified = mailed, !.via = row])
    ELSE Return(p, Response(l, "invalid_token"))

\* Mutant: the loaded device is confirmed and saved before its token check.
verify_get_device_confirming(p) ==
    /\ pc[p] = "get_device"
    /\ LET found == {d \in devices : d.user = req[p].user} IN
       IF found = {}
       THEN /\ Verified(p, req[p], FALSE, NoBackupCode.id)
            /\ UNCHANGED devices
       ELSE IF Cardinality(found) > 1
       THEN /\ Return(p, Response(req[p], "server_error"))
            /\ UNCHANGED devices
       ELSE LET d == CHOOSE x \in found : TRUE IN
            /\ devices' = Saved(devices, [d EXCEPT !.confirmed = TRUE])
            /\ IF verify_token(d, req[p].token)
               THEN IF ~d.confirmed
                    THEN Goto(p, "save_device", [req[p] EXCEPT !.device = d])
                    ELSE Verified(p, req[p], TRUE, NoBackupCode.id)
               ELSE Goto(p, "get_backup_code", [req[p] EXCEPT !.device = d])
    /\ UNCHANGED <<users, codes, nreq, lastEnroll, sinceDisable, lastBatch, account>>

\* verify_2fa_token: TOTPDevice.objects.get(user=user, name='default') and
\* the token check on the loaded device.
verify_get_device(p) ==
    /\ pc[p] = "get_device"
    /\ LET found == {d \in devices : d.user = req[p].user} IN
       IF found = {}
       THEN \* TOTPDevice.DoesNotExist: return False
            Verified(p, req[p], FALSE, NoBackupCode.id)
       ELSE IF Cardinality(found) > 1
       THEN \* MultipleObjectsReturned is not caught
            Return(p, Response(req[p], "server_error"))
       ELSE LET d == CHOOSE x \in found : TRUE IN
            IF verify_token(d, req[p].token)
            THEN IF ~d.confirmed
                 THEN Goto(p, "save_device", [req[p] EXCEPT !.device = d])
                 ELSE Verified(p, req[p], TRUE, NoBackupCode.id)
            ELSE Goto(p, "get_backup_code", [req[p] EXCEPT !.device = d])
    /\ UNCHANGED <<db, nreq, lastEnroll, sinceDisable, lastBatch, account>>

\* verify_2fa_token: device.confirmed = True
Confirmed(d) == [d EXCEPT !.confirmed = TRUE]

\* Mutant: the account flag is not set.
Enabled_forgotten(row) == row

\* verify_2fa_token: user.is_2fa_enabled = True
Enabled(row) == [row EXCEPT !.is_2fa_enabled = TRUE]

\* verify_2fa_token: device.confirmed = True; device.save()
verify_save_device(p) ==
    /\ pc[p] = "save_device"
    /\ LET d == Confirmed(req[p].device) IN
       /\ devices' = Saved(devices, d)
       /\ Goto(p, "save_user", [req[p] EXCEPT !.device = d])
    /\ UNCHANGED <<users, codes, nreq, lastEnroll, sinceDisable, lastBatch, account>>

\* verify_2fa_token: user.is_2fa_enabled = True; user.save(); return True
verify_save_user(p) ==
    /\ pc[p] = "save_user"
    /\ users' = [users EXCEPT ![req[p].user] = Enabled(req[p].row)]
    /\ Verified(p, req[p], TRUE, NoBackupCode.id)
    /\ UNCHANGED <<devices, codes, nreq, lastEnroll, sinceDisable, lastBatch, account>>

\* Mutant: the lookup without user=user.
UnusedMatches_anyone(u, t) == {r \in codes : r.code = Upper(t) /\ ~r.is_used}

\* Mutant: the lookup without is_used=False.
UnusedMatches_any(u, t) == {r \in codes : r.user = u /\ r.code = Upper(t)}

\* The rows TwoFactorBackupCode.objects.get(user=user, code=code.upper(),
\* is_used=False) looks up.
UnusedMatches(u, t) ==
    {r \in codes : r.user = u /\ r.code = Upper(t) /\ ~r.is_used}

\* _verify_backup_code: the lookup of the unused code.
verify_get_backup_code(p) ==
    /\ pc[p] = "get_backup_code"
    /\ LET found == UnusedMatches(req[p].user, req[p].token) IN
       IF found = {}
       THEN \* TwoFactorBackupCode.DoesNotExist: return False
            Verified(p, req[p], FALSE, NoBackupCode.id)
       ELSE Goto(p, "mark_as_used",
                 [req[p] EXCEPT !.backup_code = CHOOSE r \in found : TRUE])
    /\ UNCHANGED <<db, nreq, lastEnroll, sinceDisable, lastBatch, account>>

\* Mutant: used_at is not set.
MarkedUsed_undated(row) == [row EXCEPT !.is_used = TRUE]

\* TwoFactorBackupCode.mark_as_used on the loaded row, before its save().
MarkedUsed(row) == [row EXCEPT !.is_used = TRUE, !.used_at = "set"]

\* _verify_backup_code: backup_code.mark_as_used(); return True.  When the
\* row was deleted meanwhile, save() inserts it again, and the insert
\* raises IntegrityError if its code is stored in another row by now.
mark_as_used(p) ==
    /\ pc[p] = "mark_as_used"
    /\ LET row == MarkedUsed(req[p].backup_code) IN
       IF \E r \in codes : r.id # row.id /\ r.code = row.code
       THEN /\ Return(p, Response(req[p], "server_error"))
            /\ UNCHANGED codes
       ELSE /\ codes' = Saved(codes, row)
            /\ Verified(p, req[p], TRUE, row.id)
    /\ UNCHANGED <<users, devices, nreq, lastEnroll, sinceDisable, lastBatch, account>>

\* ------------------------------------------------------------ disable
\* Mutant: the view without its guard.
DisableRefused_never(row) == FALSE

\* Disable2FAView.post: if not user.is_2fa_enabled.
DisableRefused(row) == ~row.is_2fa_enabled

\* Disable2FAView.post up to the call of disable_2fa.
Disable2FAView_post(p, u) ==
    /\ pc[p] = "idle"
    /\ nreq < MaxReq
    /\ nreq' = nreq + 1
    /\ IF DisableRefused(users[u])
       THEN Return(p, Refusal(NewReq("disable", u, <<>>), "not_enabled"))
       ELSE Begin(p, NewReq("disable", u, <<>>), "delete_devices")
    /\ lastEnroll' = [lastEnroll EXCEPT ![u] = NoEnroll]
    /\ UNCHANGED <<db, sinceDisable, lastBatch, account>>

\* Mutant: only the unconfirmed devices are deleted.
disable_delete_devices_unconfirmed(p) ==
    /\ pc[p] = "delete_devices"
    /\ devices' = {d \in devices : d.user # req[p].user \/ d.confirmed}
    /\ Goto(p, "disable_delete_codes", req[p])
    /\ UNCHANGED <<users, codes, nreq, lastEnroll, sinceDisable, lastBatch, account>>

\* disable_2fa: TOTPDevice.objects.filter(user=user).delete()
disable_delete_devices(p) ==
    /\ pc[p] = "delete_devices"
    /\ devices' = {d \in devices : d.user # req[p].user}
    /\ Goto(p, "disable_delete_codes", req[p])
    /\ UNCHANGED <<users, codes, nreq, lastEnroll, sinceDisable, lastBatch, account>>

\* disable_2fa: TwoFactorBackupCode.objects.filter(user=user).delete()
disable_delete_codes(p) ==
    /\ pc[p] = "disable_delete_codes"
    /\ codes' = {r \in codes : r.user # req[p].user}
    /\ Goto(p, "disable_save_user", req[p])
    /\ lastBatch' = [lastBatch EXCEPT ![req[p].user] = {}]
    /\ UNCHANGED <<users, devices, nreq, lastEnroll, sinceDisable, account>>

\* Mutant: the account flag is not cleared.
Disabled_forgotten(row) == row

\* disable_2fa: user.is_2fa_enabled = False
Disabled(row) == [row EXCEPT !.is_2fa_enabled = FALSE]

\* disable_2fa: user.is_2fa_enabled = False; user.save(), and the response.
disable_save_user(p) ==
    /\ pc[p] = "disable_save_user"
    /\ users' = [users EXCEPT ![req[p].user] = Disabled(req[p].row)]
    /\ Return(p, Response(req[p], "ok"))
    /\ sinceDisable' = sinceDisable \cup {req[p].user}
    /\ UNCHANGED <<devices, codes, nreq, lastEnroll, lastBatch, account>>

\* ------------------------------------------------------------- login
\* The passwords a client submits.
Passwords == {"p0", "p1"}

\* UserLoginSerializer.validate: the submitted password is the account's.
LoginValid(row, pw) == row.password = pw

\* UserLoginView.post: login(request, user) is reached only when
\* user.is_2fa_enabled is false.
SessionStarted(row) == ~row.is_2fa_enabled

\* UserLoginView.post: the serializer authenticates and loads the user.
UserLoginView_post(p, u, pw) ==
    /\ pc[p] = "idle"
    /\ nreq < MaxReq
    /\ nreq' = nreq + 1
    /\ IF LoginValid(users[u], pw)
       THEN Begin(p, [NewReq("login", u, <<>>) EXCEPT !.auth = 0], "login_token")
       ELSE Return(p, [Response(NewReq("login", u, <<>>), "invalid_credentials")
                          EXCEPT !.auth = 0])
    /\ UNCHANGED <<db, lastEnroll, sinceDisable, lastBatch, account>>

\* Mutant: the temp_token is a key made for this login, stored nowhere.
TokenGot_unstored(u) == [key |-> nkeys + 1, user |-> u, created |-> FALSE]

\* Token.objects.get_or_create(user=user): the row it returns and whether it
\* made it.  The user column is unique, so a second row is never made.
TokenGot(u) ==
    IF TokenKey(u) # 0
    THEN [key |-> TokenKey(u), user |-> u, created |-> FALSE]
    ELSE [key |-> nkeys + 1, user |-> u, created |-> TRUE]

\* UserLoginView.post after the serializer: the branch on user.is_2fa_enabled,
\* login(request, user) on one side, Token.objects.get_or_create on both, and
\* the response: temp_token or token is key.
login_get_or_create_token(p) ==
    /\ pc[p] = "login_token"
    /\ LET u == req[p].user
           got == TokenGot(u)
           r == [Response(req[p], IF req[p].row.is_2fa_enabled
                                  THEN "requires_2fa" ELSE "ok") EXCEPT
                    !.key = got.key, !.session = SessionStarted(req[p].row)]
       IN /\ tokens' = IF got.created
                       THEN tokens \cup {[key |-> got.key, user |-> u]}
                       ELSE tokens
          /\ nkeys' = IF got.key > nkeys THEN nkeys + 1 ELSE nkeys
          /\ lastLogin' = [lastLogin EXCEPT ![u] = [status |-> r.status, token |-> r.key]]
          /\ Return(p, r)
    /\ UNCHANGED <<db, nreq, lastEnroll, sinceDisable, lastBatch>>

\* The keys a client sends in its Authorization header.
SentKeys == 1..(Cardinality(Users) + 1)

\* TokenAuthentication.authenticate_credentials: the users of the Token row
\* with key k.
TokenUsers(k) == {t.user : t \in {r \in tokens : r.key = k}}

\* A request with a key that no Token row holds is answered 401 before the
\* view runs.
Unauthorized(p) ==
    /\ pc[p] = "idle"
    /\ nreq < MaxReq
    /\ nreq' = nreq + 1
    /\ \E k \in SentKeys :
         /\ TokenUsers(k) = {}
         /\ Return(p, [NoResp EXCEPT !.status = "unauthorized", !.auth = k])
    /\ UNCHANGED <<db, lastEnroll, sinceDisable, lastBatch, account>>

\* --------------------------------------------------- password change
\* user.save() of the loaded copy: every column of the row is written.
PasswordSaved(row, loaded) == loaded

\* PasswordChangeView.post: the serializer has checked the old password;
\* user = request.user; user.set_password(new_password).
PasswordChangeView_post(p, u, pw) ==
    /\ pc[p] = "idle"
    /\ nreq < MaxReq
    /\ nreq' = nreq + 1
    /\ Begin(p, [NewReq("password", u, <<>>) EXCEPT
                    !.row = [users[u] EXCEPT !.password = pw],
                    !.new_password = pw],
             "password_save_user")
    /\ UNCHANGED <<db, lastEnroll, sinceDisable, lastBatch, account>>

\* PasswordChangeView.post: user.save()
password_save_user(p) ==
    /\ pc[p] = "password_save_user"
    /\ users' = [users EXCEPT ![req[p].user] = PasswordSaved(@, req[p].row)]
    /\ Goto(p, "password_delete_tokens", req[p])
    /\ UNCHANGED <<devices, codes, nreq, lastEnroll, sinceDisable, lastBatch, account>>

\* PasswordChangeView.post: Token.objects.filter(user=user).delete()
password_delete_tokens(p) ==
    /\ pc[p] = "password_delete_tokens"
    /\ tokens' = {t \in tokens : t.user # req[p].user}
    /\ Goto(p, "password_create_token", req[p])
    /\ UNCHANGED <<db, nreq, lastEnroll, sinceDisable, lastBatch, nkeys, lastLogin>>

\* PasswordChangeView.post: token = Token.objects.create(user=user) and the
\* response.  A row of the user made meanwhile raises IntegrityError.
password_create_token(p) ==
    /\ pc[p] = "password_create_token"
    /\ IF TokenKey(req[p].user) # 0
       THEN /\ Return(p, Response(req[p], "server_error"))
            /\ UNCHANGED <<tokens, nkeys>>
       ELSE /\ tokens' = tokens \cup {[key |-> nkeys + 1, user |-> req[p].user]}
            /\ nkeys' = nkeys + 1
            /\ Return(p, [Response(req[p], "ok") EXCEPT !.key = nkeys + 1])
    /\ UNCHANGED <<db, nreq, lastEnroll, sinceDisable, lastBatch, lastLogin>>

\* ------------------------------------------------------- specifications
\* A client sends a request of one of the accounts U to worker p.
Start(p, U) ==
    \E u \in U :
        \/ Enable2FAView_post(p, u)
        \/ \E t \in Tokens : Verify2FAView_post(p, u, t)
        \/ Disable2FAView_post(p, u)
        \/ RegenerateBackupCodesView_post(p, u)

\* Worker p runs the next ORM call of its handler.
Step(p) ==
    \/ get_or_create_get(p)
    \/ get_or_create_create(p)
    \/ generate_delete(p)
    \/ generate_create(p)
    \/ verify_get_device(p)
    \/ verify_save_device(p)
    \/ verify_save_user(p)
    \/ verify_get_backup_code(p)
    \/ mark_as_used(p)
    \/ disable_delete_devices(p)
    \/ disable_delete_codes(p)
    \/ disable_save_user(p)

\* Requests of one account run in parallel, one per worker.
Next == \E p \in Procs : Start(p, {"u1"}) \/ Step(p)

Spec == Init /\ [][Next]_vars

\* Requests of all accounts run one after the other.
SeqNext == Start("w1", Users) \/ Step("w1")

SeqSpec == Init /\ [][SeqNext]_vars

\* As SeqSpec, with calls of the service's generate_backup_codes besides the
\* requests to the views.
ServiceNext ==
    \/ SeqNext
    \/ \E u \in Users, n \in Counts : generate_backup_codes("w1", u, n)

ServiceSpec == Init /\ [][ServiceNext]_vars

\* Logins and token-authenticated 2FA requests of all accounts, one after
\* the other.  u1 registered through the API and holds a token; u2 was made
\* with create_user and gets its token at its first login.
LoginInit == InitWith({"u1"})

\* A client sends a 2FA request with a key that a Token row holds.
TokenAuthentication(p) == \E k \in SentKeys : Start(p, TokenUsers(k))

LoginNext ==
    \/ \E u \in Users, pw \in Passwords : UserLoginView_post("w1", u, pw)
    \/ login_get_or_create_token("w1")
    \/ TokenAuthentication("w1")
    \/ Unauthorized("w1")
    \/ Step("w1")

LoginSpec == LoginInit /\ [][LoginNext]_vars

\* 2FA requests of account u1 on worker w1 beside password changes of the
\* same account on worker w2.
PasswordNext ==
    \/ Start("w1", {"u1"})
    \/ Step("w1")
    \/ \E pw \in Passwords : PasswordChangeView_post("w2", "u1", pw)
    \/ password_save_user("w2")
    \/ password_delete_tokens("w2")
    \/ password_create_token("w2")

PasswordSpec == Init /\ [][PasswordNext]_vars

\* ----------------------------------------------------------- properties
\* This step is worker p returning from its handler.
Returns(p) == pc[p] # "idle" /\ pc'[p] = "idle"

\* This step accepts a request o of user u for processing.
Accepted(o, u) ==
    \E p \in Procs :
        pc[p] = "idle" /\ pc'[p] # "idle" /\ req'[p].op = o /\ req'[p].user = u

\* This step is the arrival of a request o of user u.
Called(o, u) ==
    /\ nreq' = nreq + 1
    /\ Accepted(o, u) \/ (out'.op = o /\ out'.user = u)

\* Submitting code c verifies user u by a backup code.
Validates(u, c) == \E r \in codes : r.user = u /\ r.code = c /\ ~r.is_used

HasConfirmedDevice(u) == \E d \in devices : d.user = u /\ d.confirmed

\* C1: of the verify requests that submit the same unused backup code
\* exactly one returns success: a verify never returns success by a code
\* that another verify has marked used already.
C1_OneSuccessPerCode ==
    [][\A p \in Procs :
         (pc[p] = "mark_as_used" /\ Returns(p) /\ out'.status = "ok")
            => ~\E r \in codes : r.id = req[p].backup_code.id /\ r.is_used]_vars

\* C2: run one after the other, a verify whose token fails the TOTP check
\* succeeds exactly when the token is an unused backup code of the user, and
\* then marks that code used; with a used code (or no such code) it returns
\* the invalid-token failure and changes no stored row.
C2_SingleUse ==
    [][\A p \in Procs :
         (pc[p] \in {"get_backup_code", "mark_as_used"} /\ Returns(p))
            => LET unused == {r \in codes : /\ r.user = req[p].user
                                            /\ r.code = Upper(req[p].token)
                                            /\ ~r.is_used}
               IN  IF unused # {}
                   THEN /\ out'.is_valid
                        /\ \A r \in unused :
                             /\ r \notin codes'
                             /\ [r EXCEPT !.is_used = TRUE, !.used_at = "set"] \in codes'
                   ELSE /\ out'.status = "invalid_token"
                        /\ ~out'.is_valid
                        /\ UNCHANGED <<users, devices, codes>>]_vars

\* A second verify with a consumed code has just been refused.
C2_Witness ==
    /\ out.op = "verify"
    /\ out.status = "invalid_token"
    /\ \E r \in codes :
         r.user = out.user /\ r.code = Upper(out.token) /\ r.is_used

\* The verify just answered was called in PENDING state with the code the
\* user's device yields.
PendingTotpVerify ==
    /\ out.op = "verify"
    /\ out.at_start = "PENDING"
    /\ \E d \in devices : d.user = out.user /\ out.token = TotpCode(d.key)

\* C3: a verify called in PENDING state with a valid TOTP code returns
\* success and leaves the user ENABLED: device confirmed, is_2fa_enabled set.
C3_TotpEnables ==
    PendingTotpVerify
        => /\ out.is_valid
           /\ users[out.user].is_2fa_enabled
           /\ HasConfirmedDevice(out.user)
           /\ \A d \in devices : d.user = out.user => d.confirmed

C3_Witness == PendingTotpVerify /\ out.is_valid /\ users[out.user].is_2fa_enabled

\* C4: a verify called in PENDING state with a token that fails the TOTP
\* check and is an unused backup code of the user returns success and
\* leaves the user ENABLED, as the TOTP path does.
C4_BackupCodeEnables ==
    [][\A p \in Procs :
         ( /\ Returns(p)
           /\ req[p].op = "verify"
           /\ req[p].at_start = "PENDING"
           /\ \A d \in devices : d.user = req[p].user => req[p].token # TotpCode(d.key)
           /\ Validates(req[p].user, Upper(req[p].token)) )
            => /\ out'.is_valid
               /\ users'[req[p].user].is_2fa_enabled
               /\ \E d \in devices' : d.user = req[p].user /\ d.confirmed]_vars

\* C5: a user whose is_2fa_enabled is true has a confirmed device.
C5_EnabledImpliesConfirmed ==
    \A u \in Users : users[u].is_2fa_enabled => HasConfirmedDevice(u)

\* C6: a user has at most one device row.
C6_OneDevice ==
    \A u \in Users : Cardinality({d \in devices : d.user = u}) <= 1

\* Only the first write of worker p's PENDING->ENABLED transition is stored.
PartlyEnabled(p) ==
    /\ pc[p] = "save_user"
    /\ req[p].device \in devices
    /\ ~users[req[p].user].is_2fa_enabled

\* Only the first write, or the first two, of worker p's disable are stored.
PartlyDisabled(p) ==
    /\ pc[p] \in {"disable_delete_codes", "disable_save_user"}
    /\ ~\E d \in devices : d.user = req[p].user
    /\ users[req[p].user].is_2fa_enabled

\* C7: no state holds only some of the writes of one PENDING->ENABLED
\* transition or of one disable.
C7_Atomic == \A p \in Procs : ~PartlyEnabled(p) /\ ~PartlyDisabled(p)

\* C8: an enroll request of a user in ENABLED state is answered with the
\* already-enabled error and changes no user, device or backup-code row.
C8_EnrollRefusedWhenEnabled ==
    [][\A u \in Users :
         (Called("enroll", u) /\ StateOf(u) = "ENABLED")
            => /\ out'.status = "already_enabled"
               /\ UNCHANGED <<users, devices, codes>>]_vars

C8_Witness ==
    /\ out.op = "enroll"
    /\ out.status = "already_enabled"
    /\ out.at_start = "ENABLED"

\* The enroll just answered followed an enroll of the same user with no
\* verify or disable of that user between them.
SecondEnroll == out.op = "enroll" /\ out.status = "ok" /\ out.prev # NoEnroll

\* C9 as stated: the second of two enrolls in a row returns the secret of
\* the first, every code of the first is invalid afterwards and exactly the
\* codes of the second validate.
C9_SecondEnrollReplaces ==
    SecondEnroll
        => /\ out.secret = out.prev.secret
           /\ \A c \in out.prev.codes : ~Validates(out.user, c)
           /\ \A c \in CodePool : Validates(out.user, c) <=> c \in out.codes

\* C9 as amended: the second of two enrolls in a row returns the secret of
\* the first, exactly the codes of the second validate afterwards, and so
\* every code of the first that the second did not draw again is invalid.
C9_SecondEnrollReplacesUndrawn ==
    SecondEnroll
        => /\ out.secret = out.prev.secret
           /\ \A c \in out.prev.codes \ out.codes : ~Validates(out.user, c)
           /\ \A c \in CodePool : Validates(out.user, c) <=> c \in out.codes

C9_Witness == SecondEnroll /\ out.prev.codes # out.codes /\ out.secret = out.prev.secret

\* C10 as stated: disable is accepted in PENDING and in ENABLED state and
\* answered with the not-enabled error only in DISABLED state.
C10_DisableAcceptedUnlessDisabled ==
    [][\A u \in Users :
         Called("disable", u)
            => IF StateOf(u) = "DISABLED"
               THEN out'.status = "not_enabled"
               ELSE Accepted("disable", u)]_vars

\* C10 as amended: disable is accepted in ENABLED state only; in DISABLED
\* and in PENDING state it is answered with the not-enabled error and
\* changes no user, device or backup-code row.
C10_DisableAcceptedWhenEnabled ==
    [][\A u \in Users :
         Called("disable", u)
            => IF StateOf(u) = "ENABLED"
               THEN Accepted("disable", u)
               ELSE /\ out'.status = "not_enabled"
                    /\ UNCHANGED <<users, devices, codes>>]_vars

C10_Witness ==
    /\ out.op = "disable"
    /\ out.status = "not_enabled"
    /\ out.at_start = "PENDING"

\* The rows of user u are those of a user who never enrolled.
NothingStored(u) ==
    /\ ~\E d \in devices : d.user = u
    /\ ~\E r \in codes : r.user = u
    /\ ~users[u].is_2fa_enabled

\* C11: when an accepted disable returns, the user has no device row and no
\* backup-code row and is_2fa_enabled is false; a disable of the same user
\* called right after it is answered with the not-enabled error and changes
\* no user, device or backup-code row.
C11_DisableClearsThenRefuses ==
    [][\A u \in Users :
         /\ (out'.op = "disable" /\ out'.status = "ok" /\ out'.user = u)
                => NothingStored(u)'
         /\ ( /\ out.op = "disable" /\ out.status = "ok" /\ out.user = u
              /\ Called("disable", u) )
                => /\ out'.status = "not_enabled"
                   /\ UNCHANGED <<users, devices, codes>>]_vars

\* A disable called right after an accepted disable of the same user has
\* just been refused.
C11_Witness ==
    /\ out.op = "disable"
    /\ out.status = "not_enabled"
    /\ out.after = [op |-> "disable", user |-> out.user, status |-> "ok"]
    /\ NothingStored(out.user)

\* C12: once an accepted disable of a user has returned, every verify of
\* that user fails, whatever token it submits, until an enroll of the user
\* is accepted.
C12_NoVerifyAfterDisable ==
    [][\A p \in Procs :
         (Returns(p) /\ req[p].op = "verify" /\ req[p].user \in sinceDisable)
            => /\ ~out'.is_valid
               /\ out'.status = "invalid_token"]_vars

\* A verify with a TOTP code has just failed for a user whose 2FA was
\* disabled and who has not enrolled since.
C12_Witness ==
    /\ out.op = "verify"
    /\ out.user \in sinceDisable
    /\ out.token \in {TotpCode(k) : k \in Keys}
    /\ out.status = "invalid_token"

\* C13: a regenerate request is accepted only for a user in state ENABLED;
\* for a user in state DISABLED or PENDING it is answered with the
\* not-enabled error and changes no user, device or backup-code row.
C13_RegenerateOnlyWhenEnabled ==
    [][\A u \in Users :
         Called("regenerate", u) =>
            IF StateOf(u) = "ENABLED"
            THEN Accepted("regenerate", u)
            ELSE /\ out'.status = "not_enabled"
                 /\ UNCHANGED <<users, devices, codes>>]_vars

\* A regenerate of a user in state PENDING, who holds unused codes, has
\* just been refused.
C13_Witness ==
    /\ out.op = "regenerate"
    /\ out.status = "not_enabled"
    /\ out.at_start = "PENDING"
    /\ \E r \in codes : r.user = out.user /\ ~r.is_used

\* A call of generate_backup_codes has just returned its batch.
GenerateDone == out.status = "ok" /\ out.op \in {"enroll", "regenerate"}

\* The backup-code rows stored for the user just answered are the Count codes
\* the response holds, one row each, all unused.
StoredIsReturned ==
    LET rows == {r \in codes : r.user = out.user} IN
    /\ {r.code : r \in rows} = out.codes
    /\ Cardinality(rows) = Count
    /\ Cardinality(out.codes) = Count
    /\ \A r \in rows : ~r.is_used /\ r.used_at = "null"

\* C14 as stated: when generate_backup_codes has completed, the stored codes
\* of the user are exactly the count codes returned, all unused, and no code
\* of the batch it replaced validates any more.
C14_BatchReplaced ==
    GenerateDone
        => /\ StoredIsReturned
           /\ \A c \in out.replaced : ~Validates(out.user, c)

\* C14 as amended: when generate_backup_codes has completed, the stored
\* codes of the user are exactly the count codes returned, all unused, and
\* no code of the batch it replaced validates any more unless the call drew
\* that code again.
C14_BatchReplacedUndrawn ==
    GenerateDone
        => /\ StoredIsReturned
           /\ \A c \in out.replaced \ out.codes : ~Validates(out.user, c)

\* A regenerate has just replaced a batch by one with other codes.
C14_Witness ==
    /\ GenerateDone
    /\ out.op = "regenerate"
    /\ out.replaced # {}
    /\ out.replaced \cap out.codes = {}
    /\ StoredIsReturned

\* C15: the backup-code batch of a user is replaced as a whole: while no
\* request is being handled, every user holds either no code or one whole
\* batch of Count codes, whatever failed while a batch was generated.
C15_WholeBatches ==
    (\A p \in Procs : pc[p] = "idle")
        => \A u \in Users :
              Cardinality({r \in codes : r.user = u}) \in {0, Count}

\* C16: generate_backup_codes called with a count of zero or less returns
\* an invalid-count error and changes no backup-code row.
C16_InvalidCountRefused ==
    [][\A p \in Procs :
         (Returns(p) /\ req[p].op = "generate" /\ req[p].count <= 0)
            => /\ out'.status = "invalid_count"
               /\ UNCHANGED codes]_vars

\* C17: the 2FA-enabled notification is sent only by a verify that has just
\* taken its user from PENDING to ENABLED: a verify that returns having sent
\* it is the one whose last step set the user's is_2fa_enabled.
C17_NotifiedOnlyOnEnabling ==
    [][\A p \in Procs :
         (Returns(p) /\ req[p].op = "verify" /\ out'.notified)
            => /\ ~users[req[p].user].is_2fa_enabled
               /\ users'[req[p].user].is_2fa_enabled]_vars

\* C18: when the notification cannot be sent after a verify in PENDING state
\* with a valid TOTP code, the user stays ENABLED and the request is
\* answered with success.
C18_MailFailureTolerated ==
    (PendingTotpVerify /\ out.is_valid /\ ~out.notified)
        => /\ users[out.user].is_2fa_enabled
           /\ out.status = "ok"

\* C19: the 2FA state of a user changes only from DISABLED to PENDING in an
\* enroll, from PENDING to ENABLED in a verify and from ENABLED to DISABLED
\* in a disable, each of that user; no step takes a user from ENABLED to
\* PENDING or from PENDING to DISABLED, and a regenerate never changes the
\* state.
C19_TransitionsOnly ==
    [][\A u \in Users :
         (StateOf(u)' # StateOf(u))
            => \E p \in Procs :
                 /\ pc[p] # "idle"
                 /\ req[p].user = u
                 /\ <<StateOf(u), req[p].op, StateOf(u)'>> \in
                        {<<"DISABLED", "enroll", "PENDING">>,
                         <<"PENDING", "verify", "ENABLED">>,
                         <<"ENABLED", "disable", "DISABLED">>}]_vars

\* C20: a verify that fails (no device of the user, or the TOTP check
\* rejects the token and no unused code of the user matches it) returns
\* false and writes nothing: it returns from one of its two lookups, which
\* it reached from the start of the request by lookups only, and no such
\* step changes a user, device or backup-code row, so confirmed,
\* is_2fa_enabled and every code's is_used and used_at stay as they were.
C20_FailedVerifyWritesNothing ==
    [][\A p \in Procs :
         /\ ( /\ req'[p].op = "verify"
              /\ pc'[p] \in {"get_device", "get_backup_code"}
              /\ pc'[p] # pc[p] )
                => /\ pc[p] \in {"idle", "get_device"}
                   /\ UNCHANGED <<users, devices, codes>>
         /\ ( /\ req[p].op = "verify"
              /\ pc[p] \in {"get_device", "get_backup_code"}
              /\ pc'[p] # pc[p] )
                => UNCHANGED <<users, devices, codes>>
         /\ (Returns(p) /\ req[p].op = "verify" /\ out'.status = "invalid_token")
                => /\ pc[p] \in {"get_device", "get_backup_code"}
                   /\ ~out'.is_valid
                   /\ ~out'.notified]_vars

\* A verify of a PENDING user who holds unused codes has just failed, and the
\* user is PENDING still, the device unconfirmed and the codes unused.
C20_Witness ==
    /\ out.op = "verify"
    /\ out.status = "invalid_token"
    /\ out.at_start = "PENDING"
    /\ StateOf(out.user) = "PENDING"
    /\ \A d \in devices : d.user = out.user => ~d.confirmed
    /\ \E r \in codes : r.user = out.user
    /\ \A r \in codes : r.user = out.user => ~r.is_used /\ r.used_at = "null"

\* C21: a verify that fails gives the caller the same result and the same
\* response whatever made the token invalid (a wrong TOTP code, a wrong or a
\* used backup code, no device): apart from the request it echoes, every
\* response of a failed verify is the one invalid-token response, and no
\* row is changed that would tell the cases apart later.
C21_OneInvalidResponse ==
    [][\A p \in Procs :
         (Returns(p) /\ req[p].op = "verify" /\ ~out'.is_valid
                     /\ pc[p] \in {"get_device", "get_backup_code"}
                     /\ out'.status # "server_error")
            => /\ [out' EXCEPT !.user = "", !.token = <<>>, !.at_start = "",
                               !.prev = NoEnroll, !.auth = 0]
                    = [NoResp EXCEPT !.op = "verify", !.status = "invalid_token"]
               /\ UNCHANGED <<users, devices, codes>>]_vars

\* A verify of an ENABLED user with a backup code that was used already has
\* just been answered as any other invalid token is.
C21_Witness ==
    /\ out.op = "verify"
    /\ out.status = "invalid_token"
    /\ out.at_start = "ENABLED"
    /\ \E r \in codes : r.user = out.user /\ r.code = Upper(out.token) /\ r.is_used
    /\ \E d \in devices : d.user = out.user /\ d.confirmed

\* C22: in every reachable state every stored backup code has used_at set
\* exactly when its is_used flag is true.
C22_UsedAtIffUsed ==
    \A r \in codes : (r.used_at # "null") <=> r.is_used

\* A code that a verify consumed is stored beside one that is unused still.
C22_Witness ==
    \E r, q \in codes :
        /\ r.user = q.user
        /\ r.is_used /\ r.used_at = "set"
        /\ ~q.is_used /\ q.used_at = "null"

\* C23: verify_2fa_token always ends with a true or false result, never
\* with an exception that escapes it: a verify request is answered with
\* success or with the invalid-token failure, and with a server error only
\* after the result was true (when the mail could not be sent).
C23_VerifyNeverRaises ==
    [][\A p \in Procs :
         (Returns(p) /\ req[p].op = "verify")
            => \/ out'.status \in {"ok", "invalid_token"}
               \/ out'.status = "server_error" /\ out'.is_valid]_vars

\* C24 as stated: the secret of a credential is in the first enroll response
\* only: an enroll repeated while the user is PENDING does not return the
\* secret an enroll returned before, and no verify, regenerate or disable
\* response holds a secret.
C24_SecretReturnedOnce ==
    /\ SecondEnroll => out.secret # out.prev.secret
    /\ out.op \in {"verify", "regenerate", "disable"} => out.secret = ""

\* C24 as amended: a secret is returned by accepted enroll requests only,
\* the first and each repeated while the user is PENDING, and it is the key
\* of the user's unconfirmed device; no verify, regenerate or disable
\* response holds a secret.
C24_SecretReturnedByEnrollOnly ==
    /\ out.secret # ""
          => /\ out.op = "enroll"
             /\ out.status = "ok"
             /\ \E d \in devices :
                  d.user = out.user /\ d.key = out.secret /\ ~d.confirmed
    /\ out.op \in {"verify", "regenerate", "disable"} => out.secret = ""

\* A regenerate of a user with a confirmed device has just returned its
\* batch, and no secret.
C24_Witness ==
    /\ out.op = "regenerate"
    /\ out.status = "ok"
    /\ out.codes # {}
    /\ out.secret = ""
    /\ \E d \in devices : d.user = out.user /\ d.confirmed /\ d.key # ""

\* The lower-case and upper-case forms of one letter.
CaseMates == {{"a", "A"}, {"b", "B"}, {"c", "C"}, {"d", "D"}}

\* Strings s and t are equal up to letter case.
SameUpToCase(s, t) ==
    /\ Len(s) = Len(t)
    /\ \A i \in 1..Len(s) : s[i] = t[i] \/ {s[i], t[i]} \in CaseMates

\* C25: when the TOTP check has failed, the backup-code lookup finds a row
\* exactly when an unused code of the user equals the submitted string up to
\* letter case, the row it finds is such a code, and the verify then
\* consumes it; a string that differs from every unused code of the user in
\* more than case is answered with the invalid-token failure.
C25_CaseInsensitiveMatch ==
    [][\A p \in Procs :
         /\ (pc[p] = "get_backup_code" /\ pc'[p] # pc[p])
               => LET m == {r \in codes : /\ r.user = req[p].user
                                          /\ ~r.is_used
                                          /\ SameUpToCase(r.code, req[p].token)}
                  IN  IF m = {}
                      THEN Returns(p) /\ out'.status = "invalid_token"
                      ELSE pc'[p] = "mark_as_used" /\ req'[p].backup_code \in m
         /\ (pc[p] = "mark_as_used" /\ Returns(p))
               => /\ out'.is_valid
                  /\ SameUpToCase(req[p].backup_code.code, req[p].token)
                  /\ [req[p].backup_code EXCEPT !.is_used = TRUE, !.used_at = "set"]
                        \in codes']_vars

\* A verify with a code typed in lower case has just consumed the code.
C25_Witness ==
    /\ out.op = "verify"
    /\ out.is_valid
    /\ \E r \in codes :
         /\ r.id = out.via
         /\ r.user = out.user
         /\ r.is_used
         /\ r.code # out.token
         /\ SameUpToCase(r.code, out.token)

\* C26: once the requests of a user have finished, the user is in no
\* inconsistent state: no pending device whose backup codes were deleted,
\* and no backup codes without a device.
C26_NoHalfEnrolled ==
    (\A p \in Procs : pc[p] = "idle")
        => \A u \in Users :
              (\E d \in devices : d.user = u) <=> (\E r \in codes : r.user = u)

\* The devices and the backup codes stored for user u.
RowsOf(u) == <<{d \in devices : d.user = u}, {r \in codes : r.user = u}>>

\* C29: no step of a 2FA request of user A changes a device or a backup code
\* of another user B, and a backup code of B never validates for A or is
\* consumed by A: a verify of A that returns true by a backup code has
\* consumed a row of A.
C29_OtherUsersUntouched ==
    [][\A p \in Procs :
         /\ pc[p] # "idle"
               => \A b \in Users \ {req[p].user} : RowsOf(b)' = RowsOf(b)
         /\ (Returns(p) /\ pc[p] = "mark_as_used" /\ out'.is_valid)
               => /\ req[p].backup_code.user = req[p].user
                  /\ \E r \in codes' : r.id = out'.via /\ r.user = req[p].user]_vars

\* User A's verify with an unused backup code of user B has just failed, and
\* B's code is unused still.
C29_Witness ==
    /\ out.op = "verify"
    /\ out.status = "invalid_token"
    /\ \E r \in codes :
         /\ r.user # out.user
         /\ r.code = Upper(out.token)
         /\ ~r.is_used
    /\ \E d \in devices : d.user = out.user

\* C30: when a disable or a regenerate ran beside the verify of an ENABLED
\* user that had looked up an unused backup code, the save of mark_as_used
\* does not bring back a row they deleted: the step stores no row whose key
\* was not stored before it.
C30_NoRowResurrected ==
    [][\A p \in Procs :
         (pc[p] = "mark_as_used" /\ pc'[p] # pc[p] /\ req[p].at_start = "ENABLED")
            => {r.id : r \in codes'} \subseteq {r.id : r \in codes}]_vars

\* C27: no write to the user row is lost between a 2FA request and a
\* password change of the same user: the user.save() of a verify or of a
\* disable leaves the stored password as it was, and the user.save() of a
\* password change leaves the stored is_2fa_enabled as it was.
C27_NoLostUserWrite ==
    [][\A p \in Procs :
         LET u == req[p].user IN
         /\ (pc[p] \in {"save_user", "disable_save_user"} /\ pc'[p] # pc[p])
               => users'[u].password = users[u].password
         /\ (pc[p] = "password_save_user" /\ pc'[p] # pc[p])
               => users'[u].is_2fa_enabled = users[u].is_2fa_enabled]_vars

====
